---- MODULE Spec2Model ----
(***************************************************************************)
(* Model of x402-minter: the retry loop of X402Minter._mint_once_with_retry *)
(* (src/x402_minter/x402_minter.py), the per-account session X402Minter.mint *)
(* and the bounded-concurrency orchestration of src/main.py.                 *)
(*                                                                           *)
(* Two specifications share the definitions that model the code:            *)
(*   SpecRetry  one direct call of _mint_once_with_retry, its max_retries    *)
(*              argument drawn from a bounded set;                           *)
(*   Spec       run_parallel_mints over a list of accounts, every unit of    *)
(*              every account going through the same retry loop with the     *)
(*              default max_retries.                                         *)
(***************************************************************************)
EXTENDS Integers, Sequences, FiniteSets, TLC

\* ---------------------------------------------------------------- bounds
\* largest max_retries argument tried in SpecRetry
MaxRetriesArg == 3

\* number of private keys given to run_parallel_mints
NumAccounts == 2

\* largest max_workers tried
MaxWorkers == 2

\* largest amount_per_account tried
MaxAmount == 2

\* largest attempt, base and cap given to _sleep_with_backoff in SpecBackoff
\* (base and cap in tenths of a second)
MaxBackoffAttempt == 5

MaxBackoffBase == 4

MaxBackoffCap == 6

\* number of nonces secrets.token_hex may return in SpecHeader
NumNonces == 2

\* largest clock reading (seconds) in SpecHeader
MaxNow == 1

\* valid_before = valid_after + 900
ValidityWindow == 900

\* secrets.randbelow(1000): the number of jitter steps
JitterSteps == 1000

\* default of the max_retries parameter (used by mint, which passes none)
DefaultMaxRetries == 12

\* --------------------------------------------------- the HTTP collaborator
\* Status codes the server may answer with: every code the loop names, and
\* two it does not name (301, 418).
TransientCodes == {408, 425, 429, 500, 502, 503, 504}

PermanentCodes == {410, 404}

StatusCodes == {200, 402, 301, 418} \cup TransientCodes \cup PermanentCodes

Bodies == {"json", "text"}

NoResp == [kind |-> "none", code |-> 0, body |-> "none"]

NoErr == [type |-> "none", msg |-> <<>>]

\* What one self.s.get(url, timeout=...) can do: answer with a status code and
\* a body, raise Timeout, raise RequestException/PaymentError, or raise some
\* exception the loop does not catch.
HttpOutcomes == [kind : {"http"}, code : StatusCodes, body : Bodies]

ExcOutcomes == [kind : {"timeout", "request_error", "other_error"}, code : {0}, body : {"none"}]

Outcomes == HttpOutcomes \cup ExcOutcomes

\* The outcomes the sessions of Spec are run against: the body of a response
\* decides nothing in mint but the shape of the appended datum, so one body
\* stands for all, and one status code for each branch of the loop.
SessionCodes == {200, 402, 404, 410, 503, 418}

SessionOutcomes == {o \in Outcomes : o.body # "text" /\ (o.kind = "http" => o.code \in SessionCodes)}

\* ------------------------------------------------- build_x_payment_header
\* The values a payment body is made of, as far as the validation looks at
\* them.  payTo: a string with its first two characters and its length, or
\* something that is no string.  maxAmountRequired: a string or not.
PayToValues ==
    [isstr : {TRUE}, prefix : {"0x", "0X"}, len : {41, 42, 66}]
        \cup {[isstr |-> FALSE, prefix |-> "", len |-> 0]}

AmountValues == {"str", "int"}

NoPayTo == [isstr |-> FALSE, prefix |-> "", len |-> 0]

\* accepts[0]: a dict with or without the two keys, or a value that is no
\* dict.  keys is the set of keys k for which `k in entry` is true: the keys
\* of a dict, the elements of a list, the substrings of a str; `k in entry`
\* raises TypeError for an int and for None.
DictEntries ==
    {e \in [kind : {"dict"}, keys : SUBSET {"payTo", "maxAmountRequired"},
            payTo : PayToValues, value : AmountValues] :
        /\ "payTo" \notin e.keys => e.payTo = NoPayTo
        /\ "maxAmountRequired" \notin e.keys => e.value = "int"}

OtherEntries ==
    [kind : {"str", "list"}, keys : {{}, {"payTo", "maxAmountRequired"}},
     payTo : {NoPayTo}, value : {"int"}]
        \cup [kind : {"int", "none"}, keys : {{}}, payTo : {NoPayTo}, value : {"int"}]

Entries == DictEntries \cup OtherEntries

\* body: a dict whose "accepts" is missing, is no list, or is a list of up to
\* two entries; or a value that is no dict.
PaymentBodies ==
    [kind : {"list", "none"}, accepts : {"missing"}, items : {<<>>}]
        \cup [kind : {"dict"}, accepts : {"missing", "str", "dict"}, items : {<<>>}]
        \cup [kind : {"dict"}, accepts : {"list"},
              items : {<<>>} \cup {<<e>> : e \in Entries}
                            \cup {<<e, [kind |-> "int", keys |-> {}, payTo |-> NoPayTo,
                                        value |-> "int"]>> : e \in Entries}]

\* _validate_payment_body: "ok" when it returns, else the type of what it
\* raises.
ValidatePaymentBody(body) ==
    IF body.kind # "dict" THEN "ValueError"
    ELSE IF body.accepts # "list" \/ body.items = <<>> THEN "ValueError"
    ELSE LET entry == body.items[1]
         IN  IF entry.kind \in {"int", "none"} THEN "TypeError"
             ELSE IF "payTo" \notin entry.keys THEN "ValueError"
             ELSE IF "maxAmountRequired" \notin entry.keys THEN "ValueError"
             ELSE IF entry.kind # "dict" THEN "TypeError"
             ELSE IF ~(entry.payTo.isstr /\ entry.payTo.prefix = "0x"
                        /\ entry.payTo.len \in {42, 66}) THEN "ValueError"
             ELSE IF entry.value # "str" THEN "ValueError"
             ELSE "ok"

NoAuthorization == [nonce |-> 0, to |-> NoPayTo, validAfter |-> 0, validBefore |-> 0, value |-> "none"]

\* one build_x_payment_header(body) call, before it has run: nonces and signs
\* count its calls of secrets.token_hex and of sign_message
HeaderArgs(body) ==
    [pc |-> "args", body |-> body, result |-> "none", nonces |-> 0, signs |-> 0,
     authorization |-> NoAuthorization]

\* build_x_payment_header: validate, then read the clock, draw the nonce, sign
\* the authorization and return the envelope.
BuildXPaymentHeader(h, now, nonce) ==
    LET v == ValidatePaymentBody(h.body)
    IN  IF v # "ok"
        THEN [h EXCEPT !.pc = "raised", !.result = v]
        ELSE [h EXCEPT !.pc = "returned", !.result = "envelope",
                       !.nonces = @ + 1, !.signs = @ + 1,
                       !.authorization = [nonce |-> nonce,
                                          to |-> h.body.items[1].payTo,
                                          validAfter |-> now,
                                          validBefore |-> now + ValidityWindow,
                                          value |-> h.body.items[1].value]]

\* ------------------------------------------------ _mint_once_with_retry
\* Classify with 404 left out of the permanent codes.
ClassifyRetries404(o) ==
    CASE o.kind = "timeout" -> "retry"
      [] o.kind = "request_error" -> "retry"
      [] o.kind = "other_error" -> "propagate"
      [] o.kind = "http" /\ o.code = 200 -> "success"
      [] o.kind = "http" /\ o.code = 410 -> "permanent"
      [] OTHER -> "retry"

\* Classify that fails fast on a status code the loop does not name.
ClassifyUnknownFatal(o) ==
    CASE o.kind = "timeout" -> "retry"
      [] o.kind = "request_error" -> "retry"
      [] o.kind = "other_error" -> "propagate"
      [] o.kind = "http" /\ o.code = 200 -> "success"
      [] o.kind = "http" /\ o.code = 402 -> "retry"
      [] o.kind = "http" /\ o.code \in TransientCodes -> "retry"
      [] OTHER -> "permanent"

\* The classification of one attempt's outcome (the try/except/else block).
Classify(o) ==
    CASE o.kind = "timeout" -> "retry"
      [] o.kind = "request_error" -> "retry"
      [] o.kind = "other_error" -> "propagate"
      [] o.kind = "http" /\ o.code = 200 -> "success"
      [] o.kind = "http" /\ o.code = 402 -> "retry"
      [] o.kind = "http" /\ o.code \in TransientCodes -> "retry"
      [] o.kind = "http" /\ o.code \in PermanentCodes -> "permanent"
      [] OTHER -> "retry"

\* The frame of one call: the local `attempt`, where the call stands, and what
\* it returned or raised.  requests/sleeps/builds count the calls it has made
\* to self.s.get, to _sleep_with_backoff and to build_x_payment_header;
\* slept_for is the attempt argument of its last _sleep_with_backoff call.
NewCall ==
    [attempt |-> 0, pc |-> "get", requests |-> 0, sleeps |-> 0, slept_for |-> 0,
     builds |-> 0, resp |-> NoResp, err |-> NoErr]

\* The request of one attempt: self.s.get(url, timeout=self.timeout).  No
\* header is passed and build_x_payment_header is not called.
SendRequest(c) ==
    [c EXCEPT !.requests = @ + 1]

\* LoopIteration with the budget test written `attempt > max_retries`.
LoopIterationOffByOne(c, max_retries, o) ==
    LET sent == SendRequest([c EXCEPT !.attempt = @ + 1])
        cls == Classify(o)
    IN  CASE cls = "propagate" ->
               [sent EXCEPT !.pc = "raised",
                            !.err = [type |-> "Exception", msg |-> <<"unexpected">>]]
          [] cls = "success" ->
               [sent EXCEPT !.pc = "returned", !.resp = o]
          [] cls = "permanent" ->
               [sent EXCEPT !.pc = "raised",
                            !.err = [type |-> "X402MintError",
                                     msg |-> <<"Permanent failure", o.code>>]]
          [] OTHER ->
               IF sent.attempt > max_retries
               THEN [sent EXCEPT !.pc = "raised",
                                 !.err = [type |-> "X402MintError",
                                          msg |-> <<"Mint failed after attempts", max_retries>>]]
               ELSE [sent EXCEPT !.pc = "sleep"]

\* LoopIteration with the budget tested before the status code is looked at.
LoopIterationBudgetFirst(c, max_retries, o) ==
    LET sent == SendRequest([c EXCEPT !.attempt = @ + 1])
        cls == Classify(o)
    IN  CASE cls = "propagate" ->
               [sent EXCEPT !.pc = "raised",
                            !.err = [type |-> "Exception", msg |-> <<"unexpected">>]]
          [] cls = "permanent" ->
               [sent EXCEPT !.pc = "raised",
                            !.err = [type |-> "X402MintError",
                                     msg |-> <<"Permanent failure", o.code>>]]
          [] sent.attempt >= max_retries ->
               [sent EXCEPT !.pc = "raised",
                            !.err = [type |-> "X402MintError",
                                     msg |-> <<"Mint failed after attempts", max_retries>>]]
          [] cls = "success" ->
               [sent EXCEPT !.pc = "returned", !.resp = o]
          [] OTHER ->
               [sent EXCEPT !.pc = "sleep"]

\* LoopIteration that starts the count again when the budget is used up.
LoopIterationRestartsBudget(c, max_retries, o) ==
    LET sent == SendRequest([c EXCEPT !.attempt = @ + 1])
        cls == Classify(o)
    IN  CASE cls = "propagate" ->
               [sent EXCEPT !.pc = "raised",
                            !.err = [type |-> "Exception", msg |-> <<"unexpected">>]]
          [] cls = "success" ->
               [sent EXCEPT !.pc = "returned", !.resp = o]
          [] cls = "permanent" ->
               [sent EXCEPT !.pc = "raised",
                            !.err = [type |-> "X402MintError",
                                     msg |-> <<"Permanent failure", o.code>>]]
          [] OTHER ->
               IF sent.attempt >= max_retries
               THEN [sent EXCEPT !.pc = "sleep", !.attempt = 0, !.requests = 0, !.sleeps = 0]
               ELSE [sent EXCEPT !.pc = "sleep"]

\* LoopIteration with the backoff sleep placed before the budget test.
LoopIterationSleepsBeforeRaise(c, max_retries, o) ==
    LET sent == SendRequest([c EXCEPT !.attempt = @ + 1])
        cls == Classify(o)
    IN  CASE cls = "propagate" ->
               [sent EXCEPT !.pc = "raised",
                            !.err = [type |-> "Exception", msg |-> <<"unexpected">>]]
          [] cls = "success" ->
               [sent EXCEPT !.pc = "returned", !.resp = o]
          [] cls = "permanent" ->
               [sent EXCEPT !.pc = "raised",
                            !.err = [type |-> "X402MintError",
                                     msg |-> <<"Permanent failure", o.code>>]]
          [] OTHER ->
               IF sent.attempt >= max_retries
               THEN [sent EXCEPT !.pc = "raised", !.sleeps = @ + 1,
                                 !.slept_for = sent.attempt,
                                 !.err = [type |-> "X402MintError",
                                          msg |-> <<"Mint failed after attempts", max_retries>>]]
               ELSE [sent EXCEPT !.pc = "sleep"]

\* LoopIteration of a loop written `while attempt < max_retries`: the budget
\* is tested before the attempt is made.
LoopIterationTestsBudgetFirst(c, max_retries, o) ==
    LET sent == SendRequest([c EXCEPT !.attempt = @ + 1])
        cls == Classify(o)
    IN  CASE c.attempt >= max_retries ->
               [c EXCEPT !.pc = "raised",
                         !.err = [type |-> "X402MintError",
                                  msg |-> <<"Mint failed after attempts", max_retries>>]]
          [] cls = "propagate" ->
               [sent EXCEPT !.pc = "raised",
                            !.err = [type |-> "Exception", msg |-> <<"unexpected">>]]
          [] cls = "success" ->
               [sent EXCEPT !.pc = "returned", !.resp = o]
          [] cls = "permanent" ->
               [sent EXCEPT !.pc = "raised",
                            !.err = [type |-> "X402MintError",
                                     msg |-> <<"Permanent failure", o.code>>]]
          [] OTHER ->
               [sent EXCEPT !.pc = "sleep"]

\* One iteration of `while True`, from `attempt += 1` to the return, the raise
\* or the point where the backoff sleep starts.
LoopIteration(c, max_retries, o) ==
    LET sent == SendRequest([c EXCEPT !.attempt = @ + 1])
        cls == Classify(o)
    IN  CASE cls = "propagate" ->
               [sent EXCEPT !.pc = "raised",
                            !.err = [type |-> "Exception", msg |-> <<"unexpected">>]]
          [] cls = "success" ->
               [sent EXCEPT !.pc = "returned", !.resp = o]
          [] cls = "permanent" ->
               [sent EXCEPT !.pc = "raised",
                            !.err = [type |-> "X402MintError",
                                     msg |-> <<"Permanent failure", o.code>>]]
          [] OTHER ->
               IF sent.attempt >= max_retries
               THEN [sent EXCEPT !.pc = "raised",
                                 !.err = [type |-> "X402MintError",
                                          msg |-> <<"Mint failed after attempts", max_retries>>]]
               ELSE [sent EXCEPT !.pc = "sleep"]

Min(x, y) == IF x <= y THEN x ELSE y

\* BackoffDelay without the cap.
BackoffDelayUncapped(attempt, base, cap, r) ==
    (base * 2 ^ (attempt - 1)) * (6000 + 8 * r)

\* The delay _sleep_with_backoff sleeps for, in 1/10000 of the unit of base and
\* cap: min(cap, base * 2 ** (attempt - 1)) * (0.6 + 0.8 * r / 1000.0), r being
\* the draw of secrets.randbelow(1000).
BackoffDelay(attempt, base, cap, r) ==
    Min(cap, base * 2 ^ (attempt - 1)) * (6000 + 8 * r)

\* the arguments of one _sleep_with_backoff call, before it has run
BackoffArgs(attempt, base, cap) ==
    [pc |-> "args", attempt |-> attempt, base |-> base, cap |-> cap, r |-> 0, delay |-> 0]

\* self._sleep_with_backoff(attempt=attempt, ...) returning: back to the top
\* of the loop.
SleepWithBackoff(c) ==
    [c EXCEPT !.pc = "get", !.sleeps = @ + 1, !.slept_for = c.attempt]

\* --------------------------------------------------------- X402Minter.mint
\* data = resp.json(), or {"raw_text": resp.text} when the body is not JSON.
ParseBody(resp) ==
    IF resp.body = "json" THEN <<"parsed", resp.body>> ELSE <<"raw_text", resp.body>>

\* The frame of one mint(url, amount): the loop variable i, the local list
\* `results`, the frame of the current _mint_once_with_retry call, and the
\* exception mint raised (NoErr while it runs and when it returns).
NewSession ==
    [pc |-> "init", i |-> 0, results |-> <<>>, call |-> NewCall, err |-> NoErr]

\* EnterMint whose validation is written `amount < 0`.
EnterMintAllowsZero(s, amount, ctor) ==
    IF ctor # "ok"
    THEN [s EXCEPT !.pc = "raised",
                   !.err = [type |-> ctor, msg |-> <<"bad private key">>]]
    ELSE IF amount < 0
    THEN [s EXCEPT !.pc = "raised",
                   !.err = [type |-> "ValueError", msg |-> <<"amount must be > 0">>]]
    ELSE [s EXCEPT !.pc = "unit", !.i = 1, !.call = NewCall]

\* X402Minter(private_key, ...) followed by the entry of mint: the constructor
\* may raise on a bad key (ctor names what it does), amount <= 0 raises
\* ValueError, otherwise the loop starts at i = 1 with a new retry call.
EnterMint(s, amount, ctor) ==
    IF ctor # "ok"
    THEN [s EXCEPT !.pc = "raised",
                   !.err = [type |-> ctor, msg |-> <<"bad private key">>]]
    ELSE IF amount <= 0
    THEN [s EXCEPT !.pc = "raised",
                   !.err = [type |-> "ValueError", msg |-> <<"amount must be > 0">>]]
    ELSE [s EXCEPT !.pc = "unit", !.i = 1, !.call = NewCall]

\* AfterCall that hands the attempt counter of the finished call to the call
\* of the next unit.
AfterCallKeepsAttempt(s, amount) ==
    IF s.call.pc = "raised"
    THEN [s EXCEPT !.pc = "raised", !.err = s.call.err, !.call = NewCall]
    ELSE IF s.call.pc = "returned"
    THEN LET appended == [s EXCEPT !.results = Append(@, ParseBody(s.call.resp)),
                                   !.call = [NewCall EXCEPT !.attempt = s.call.attempt]]
         IN  IF s.i < amount
             THEN [appended EXCEPT !.i = @ + 1]
             ELSE [appended EXCEPT !.pc = "returned"]
    ELSE s

\* AfterCall that logs the failure of unit i and tries the unit again.
AfterCallRetriesUnit(s, amount) ==
    IF s.call.pc = "raised"
    THEN [s EXCEPT !.err = s.call.err, !.call = NewCall]
    ELSE IF s.call.pc = "returned"
    THEN LET appended == [s EXCEPT !.results = Append(@, ParseBody(s.call.resp)),
                                   !.call = NewCall]
         IN  IF s.i < amount
             THEN [appended EXCEPT !.i = @ + 1]
             ELSE [appended EXCEPT !.pc = "returned"]
    ELSE s

\* AfterCall that logs the failure of unit i and goes on with unit i+1.
AfterCallSkipsFailedUnit(s, amount) ==
    IF s.call.pc = "raised" /\ s.i < amount
    THEN [s EXCEPT !.i = @ + 1, !.call = NewCall]
    ELSE IF s.call.pc = "raised"
    THEN [s EXCEPT !.pc = "raised", !.err = s.call.err, !.call = NewCall]
    ELSE IF s.call.pc = "returned"
    THEN LET appended == [s EXCEPT !.results = Append(@, ParseBody(s.call.resp)),
                                   !.call = NewCall]
         IN  IF s.i < amount
             THEN [appended EXCEPT !.i = @ + 1]
             ELSE [appended EXCEPT !.pc = "returned"]
    ELSE s

\* AfterCall whose loop ends one unit early (range(1, amount)).
AfterCallStopsEarly(s, amount) ==
    IF s.call.pc = "raised"
    THEN [s EXCEPT !.pc = "raised", !.err = s.call.err, !.call = NewCall]
    ELSE IF s.call.pc = "returned"
    THEN LET appended == [s EXCEPT !.results = Append(@, ParseBody(s.call.resp)),
                                   !.call = NewCall]
         IN  IF s.i + 1 < amount
             THEN [appended EXCEPT !.i = @ + 1]
             ELSE [appended EXCEPT !.pc = "returned"]
    ELSE s

\* What mint does once the retry call of unit i has returned or raised: on a
\* raise, log and re-raise (any other exception propagates as it is); on a
\* return, append the parsed body and go on with unit i+1 or return results.
\* The frame of the finished call is gone in either case.
AfterCall(s, amount) ==
    IF s.call.pc = "raised"
    THEN [s EXCEPT !.pc = "raised", !.err = s.call.err, !.call = NewCall]
    ELSE IF s.call.pc = "returned"
    THEN LET appended == [s EXCEPT !.results = Append(@, ParseBody(s.call.resp)),
                                   !.call = NewCall]
         IN  IF s.i < amount
             THEN [appended EXCEPT !.i = @ + 1]
             ELSE [appended EXCEPT !.pc = "returned"]
    ELSE s

\* One iteration of the retry loop inside mint, which passes no max_retries:
\* the attempt and, when the loop goes round again, the blocking backoff sleep
\* that follows it in the same worker thread.
MintStep(s, amount, o) ==
    LET tried == LoopIteration(s.call, DefaultMaxRetries, o)
        slept == IF tried.pc = "sleep" THEN SleepWithBackoff(tried) ELSE tried
    IN  AfterCall([s EXCEPT !.call = slept], amount)

\* One mint(url, amount) call on its own, with the requests it has sent so far
\* over all units (sent) and for the unit it is in (unit_sent).
MintArgs(amount) ==
    [s |-> NewSession, amount |-> amount, sent |-> 0, unit_sent |-> 0]

\* the requests one loop iteration on the call frame of session s sends
SentBy(s, o) == LoopIteration(s.call, DefaultMaxRetries, o).requests - s.call.requests

\* ------------------------------------------------- run_minter_for_account
NoResult == [private_key_suffix |-> 0, ok |-> FALSE, error |-> <<>>, error_type |-> "pending"]

\* AccountResult that reports every failure under one fixed kind.
AccountResultFixedKind(a, s) ==
    IF s.pc = "returned"
    THEN [private_key_suffix |-> a, ok |-> TRUE, results |-> s.results]
    ELSE [private_key_suffix |-> a, ok |-> FALSE,
          error |-> s.err.msg, error_type |-> "X402MintError"]

\* The dict returned for the account with suffix a once its session has
\* returned or raised (elapsed_sec is left out: time is not modelled).
AccountResult(a, s) ==
    IF s.pc = "returned"
    THEN [private_key_suffix |-> a, ok |-> TRUE, results |-> s.results]
    ELSE [private_key_suffix |-> a, ok |-> FALSE,
          error |-> s.err.msg, error_type |-> s.err.type]

\* ----------------------------------------------------- run_parallel_mints
\* private_keys, by position; the suffix of the a-th key is written a.
Accounts == 1..NumAccounts

Running(t) == {a \in Accounts : t[a] = "running"}

\* CanStart of a pool that starts a thread for every queued task.
CanStartUnbounded(a, t, workers) ==
    /\ t[a] = "queued"
    /\ \A b \in Accounts : b < a => t[b] # "queued"

\* ThreadPoolExecutor(max_workers): a queued task starts when it is the oldest
\* one in the work queue and fewer than max_workers tasks are running.
CanStart(a, t, workers) ==
    /\ t[a] = "queued"
    /\ \A b \in Accounts : b < a => t[b] # "queued"
    /\ Cardinality(Running(t)) < workers

\* Completed that yields a finished future again.
CompletedAgain(t, done) == {a \in Accounts : t[a] = "done"}

\* Completed of a collector that waits for the futures in submission order.
CompletedInSubmissionOrder(t, done) ==
    {a \in Accounts : t[a] = "done" /\ a \notin done /\ \A b \in Accounts : b < a => b \in done}

\* as_completed(future_map): the futures that are done and not yet yielded.
Completed(t, done) == {a \in Accounts : t[a] = "done" /\ a \notin done}

\* ------------------------------------------------------------------ state
VARIABLES rq, rqMax, served,
          amount, max_workers, mainpc, submitted, task, sess, future, yielded, results,
          bk, hb, ms

vars == <<rq, rqMax, served, amount, max_workers, mainpc, submitted, task, sess, future,
          yielded, results, bk, hb, ms>>

\* the variables of the specifications of single functions
unitVars == <<bk, hb, ms>>

retryVars == <<rq, rqMax, served>>

poolVars == <<amount, max_workers, mainpc, submitted, task, sess, future, yielded, results>>

\* the state of run_parallel_mints before its first statement
PoolStart ==
    /\ mainpc = "submit"
    /\ submitted = 0
    /\ task = [a \in Accounts |-> "unsubmitted"]
    /\ sess = [a \in Accounts |-> NewSession]
    /\ future = [a \in Accounts |-> NoResult]
    /\ yielded = {}
    /\ results = <<>>

\* what the variables of the single-function specifications hold elsewhere
UnitIdle ==
    /\ bk = BackoffArgs(1, 1, 1)
    /\ hb = HeaderArgs([kind |-> "none", accepts |-> "missing", items |-> <<>>])
    /\ ms = MintArgs(1)

\* the retry call and the pool, not started
RetryIdle ==
    /\ rq = NewCall
    /\ rqMax = DefaultMaxRetries
    /\ served = <<>>

PoolIdle ==
    /\ amount = 1
    /\ max_workers = 1
    /\ PoolStart

\* ------------------------------------- SpecRetry: one call of the retry loop
RetryInit ==
    /\ UnitIdle
    /\ rqMax \in -1..MaxRetriesArg
    /\ rq = NewCall
    /\ served = <<>>
    /\ amount = 1
    /\ max_workers = 1
    /\ PoolStart

RetryGet ==
    /\ rq.pc = "get"
    /\ \E o \in Outcomes :
         /\ rq' = LoopIteration(rq, rqMax, o)
         /\ served' = Append(served, o)
    /\ UNCHANGED rqMax
    /\ UNCHANGED poolVars
    /\ UNCHANGED unitVars

RetrySleep ==
    /\ rq.pc = "sleep"
    /\ rq' = SleepWithBackoff(rq)
    /\ UNCHANGED <<rqMax, served>>
    /\ UNCHANGED poolVars
    /\ UNCHANGED unitVars

RetryNext == RetryGet \/ RetrySleep

SpecRetry == RetryInit /\ [][RetryNext]_vars

\* ------------------------------------------ Spec: run_parallel_mints
Init ==
    /\ UnitIdle
    /\ amount \in -1..MaxAmount
    /\ max_workers \in 1..MaxWorkers
    /\ PoolStart
    /\ rq = NewCall
    /\ rqMax = DefaultMaxRetries
    /\ served = <<>>

\* main thread: ex.submit(run_minter_for_account, pk, ...) for the next key;
\* after the last one the as_completed loop starts.
Submit ==
    /\ mainpc = "submit"
    /\ submitted' = submitted + 1
    /\ task' = [task EXCEPT ![submitted + 1] = "queued"]
    /\ mainpc' = IF submitted + 1 = NumAccounts THEN "collect" ELSE "submit"
    /\ UNCHANGED <<amount, max_workers, sess, future, yielded, results>>
    /\ UNCHANGED retryVars
    /\ UNCHANGED unitVars

\* a worker thread takes the task of account a off the queue
Start(a) ==
    /\ CanStart(a, task, max_workers)
    /\ task' = [task EXCEPT ![a] = "running"]
    /\ UNCHANGED <<amount, max_workers, mainpc, submitted, sess, future, yielded, results>>
    /\ UNCHANGED retryVars
    /\ UNCHANGED unitVars

\* the session of a has returned or raised: run_minter_for_account returns its
\* dict, the future is done and the worker is free again
Settle(a, s) ==
    IF s.pc \in {"returned", "raised"}
    THEN /\ future' = [future EXCEPT ![a] = AccountResult(a, s)]
         /\ task' = [task EXCEPT ![a] = "done"]
    ELSE UNCHANGED <<future, task>>

\* worker of a: construct the minter and enter mint
Enter(a) ==
    /\ task[a] = "running"
    /\ sess[a].pc = "init"
    /\ \E ctor \in {"ok", "ValueError", "Exception"} :
         LET s == EnterMint(sess[a], amount, ctor)
         IN  /\ sess' = [sess EXCEPT ![a] = s]
             /\ Settle(a, s)
    /\ UNCHANGED <<amount, max_workers, mainpc, submitted, yielded, results>>
    /\ UNCHANGED retryVars
    /\ UNCHANGED unitVars

\* worker of a: one attempt of the current unit, with the sleep after it
Get(a) ==
    /\ task[a] = "running"
    /\ sess[a].pc = "unit"
    /\ sess[a].call.pc = "get"
    /\ \E s \in {MintStep(sess[a], amount, o) : o \in SessionOutcomes} :
         /\ sess' = [sess EXCEPT ![a] = s]
         /\ Settle(a, s)
    /\ UNCHANGED <<amount, max_workers, mainpc, submitted, yielded, results>>
    /\ UNCHANGED retryVars
    /\ UNCHANGED unitVars

\* main thread: as_completed yields a finished future, its dict is appended
Collect ==
    /\ mainpc = "collect"
    /\ \E a \in Completed(task, yielded) :
         /\ results' = Append(results, future[a])
         /\ yielded' = yielded \cup {a}
    /\ UNCHANGED <<amount, max_workers, mainpc, submitted, task, sess, future>>
    /\ UNCHANGED retryVars
    /\ UNCHANGED unitVars

\* main thread: every future has been yielded; the executor shuts down and
\* run_parallel_mints returns results
Return ==
    /\ mainpc = "collect"
    /\ yielded = Accounts
    /\ mainpc' = "returned"
    /\ UNCHANGED <<amount, max_workers, submitted, task, sess, future, yielded, results>>
    /\ UNCHANGED retryVars
    /\ UNCHANGED unitVars

Next ==
    \/ Submit
    \/ \E a \in Accounts : Start(a)
    \/ \E a \in Accounts : Enter(a)
    \/ \E a \in Accounts : Get(a)
    \/ Collect
    \/ Return

Spec == Init /\ [][Next]_vars

\* The threads of run_parallel_mints: the main thread, and the worker that runs
\* the task of account a.  Each is scheduled again and again, and each HTTP
\* call comes back (with an answer or a timeout), so a thread that can take a
\* step eventually takes one.
MainThread == Submit \/ Collect \/ Return

WorkerThread(a) == Start(a) \/ Enter(a) \/ Get(a)

FairSpec ==
    /\ Spec
    /\ WF_vars(MainThread)
    /\ \A a \in Accounts : WF_vars(WorkerThread(a))

\* ------------------------------- SpecBackoff: one _sleep_with_backoff call
BackoffInit ==
    /\ \E n \in 1..MaxBackoffAttempt, b \in 1..MaxBackoffBase, c \in 1..MaxBackoffCap :
          bk = BackoffArgs(n, b, c)
    /\ hb = HeaderArgs([kind |-> "none", accepts |-> "missing", items |-> <<>>])
    /\ ms = MintArgs(1)
    /\ RetryIdle
    /\ PoolIdle

\* the call draws its jitter, computes the delay and sleeps
BackoffSleep ==
    /\ bk.pc = "args"
    /\ \E r \in 0..(JitterSteps - 1) :
          bk' = [bk EXCEPT !.pc = "slept", !.r = r,
                           !.delay = BackoffDelay(bk.attempt, bk.base, bk.cap, r)]
    /\ UNCHANGED <<hb, ms>>
    /\ UNCHANGED retryVars
    /\ UNCHANGED poolVars

BackoffNext == BackoffSleep

SpecBackoff == BackoffInit /\ [][BackoffNext]_vars

\* --------------------------- SpecHeader: one build_x_payment_header call
HeaderInit ==
    /\ \E body \in PaymentBodies : hb = HeaderArgs(body)
    /\ bk = BackoffArgs(1, 1, 1)
    /\ ms = MintArgs(1)
    /\ RetryIdle
    /\ PoolIdle

HeaderBuild ==
    /\ hb.pc = "args"
    /\ \E now \in 0..MaxNow, nonce \in 1..NumNonces :
          hb' = BuildXPaymentHeader(hb, now, nonce)
    /\ UNCHANGED <<bk, ms>>
    /\ UNCHANGED retryVars
    /\ UNCHANGED poolVars

HeaderNext == HeaderBuild

SpecHeader == HeaderInit /\ [][HeaderNext]_vars

\* ------------------------------------------ SpecSession: one mint call
SessionInit ==
    /\ \E n \in 1..MaxAmount : ms = MintArgs(n)
    /\ bk = BackoffArgs(1, 1, 1)
    /\ hb = HeaderArgs([kind |-> "none", accepts |-> "missing", items |-> <<>>])
    /\ RetryIdle
    /\ PoolIdle

\* mint is entered: the amount is tested and the loop over the units begins
SessionEnter ==
    /\ ms.s.pc = "init"
    /\ ms' = [ms EXCEPT !.s = EnterMint(ms.s, ms.amount, "ok")]
    /\ UNCHANGED <<bk, hb>>
    /\ UNCHANGED retryVars
    /\ UNCHANGED poolVars

\* one attempt of the unit the session is in
SessionGet ==
    /\ ms.s.pc = "unit"
    /\ ms.s.call.pc = "get"
    /\ \E o \in SessionOutcomes :
         LET next == MintStep(ms.s, ms.amount, o)
             n == SentBy(ms.s, o)
         IN  ms' = [ms EXCEPT !.s = next,
                              !.sent = @ + n,
                              !.unit_sent = IF next.pc = "unit" /\ next.i # ms.s.i
                                            THEN 0 ELSE @ + n]
    /\ UNCHANGED <<bk, hb>>
    /\ UNCHANGED retryVars
    /\ UNCHANGED poolVars

SessionNext == SessionEnter \/ SessionGet

SpecSession == SessionInit /\ [][SessionNext]_vars

\* ================================================================ claims
\* an outcome that neither ends the call with a response nor is a 404/410
NonTerminal(o) ==
    \/ o.kind \in {"timeout", "request_error"}
    \/ o.kind = "http" /\ o.code \notin {200, 404, 410}

ExhaustedErr(n) == [type |-> "X402MintError", msg |-> <<"Mint failed after attempts", n>>]

PermanentErr(code) == [type |-> "X402MintError", msg |-> <<"Permanent failure", code>>]

\* C1: with max_retries >= 1 the call never sends more than max_retries
\* requests, and when the first max_retries outcomes are all non-terminal
\* failures it has raised the exhaustion error after exactly max_retries
\* requests.
C1_ExhaustedAfterMaxAttempts ==
    rqMax >= 1 =>
        /\ rq.requests <= rqMax
        /\ Len(served) <= rqMax
        /\ (Len(served) = rqMax /\ \A i \in 1..rqMax : NonTerminal(served[i]))
              => /\ rq.pc = "raised"
                 /\ rq.err = ExhaustedErr(rqMax)
                 /\ rq.requests = rqMax

C1_Witness ==
    /\ rqMax >= 2
    /\ Len(served) = rqMax
    /\ \A i \in 1..rqMax : NonTerminal(served[i])
    /\ rq.err = ExhaustedErr(rqMax)

\* C2: a 404 or 410 answer to the i-th request ends the call with the permanent
\* failure: it is the last request (i requests in all) and no sleep follows it
\* (i - 1 sleeps in all), whatever i and max_retries are.
C2_PermanentEndsLoop ==
    \A i \in 1..Len(served) :
        (served[i].kind = "http" /\ served[i].code \in {404, 410})
            => /\ Len(served) = i
               /\ rq.requests = i
               /\ rq.sleeps = i - 1
               /\ rq.pc = "raised"
               /\ rq.err = PermanentErr(served[i].code)

C2_Witness ==
    /\ Len(served) = 2
    /\ rqMax > 2
    /\ served[2].kind = "http"
    /\ served[2].code = 404
    /\ rq.pc = "raised"

\* C3: k answers from {402, 429, 500}, k <= max_retries - 1, followed by a 200
\* make the call return that 200 response after exactly k + 1 requests.
C3_SuccessAfterRetries ==
    LET n == Len(served)
    IN  (/\ n >= 1
         /\ n <= rqMax
         /\ served[n].kind = "http"
         /\ served[n].code = 200
         /\ \A i \in 1..(n - 1) : served[i].kind = "http" /\ served[i].code \in {402, 429, 500})
            => /\ rq.pc = "returned"
               /\ rq.resp = served[n]
               /\ rq.requests = n

C3_Witness ==
    /\ Len(served) = rqMax
    /\ rqMax >= 3
    /\ served[rqMax].kind = "http"
    /\ served[rqMax].code = 200
    /\ \A i \in 1..(rqMax - 1) : served[i].kind = "http" /\ served[i].code \in {402, 429, 500}
    /\ {served[1].code, served[2].code} = {402, 500}
    /\ rq.pc = "returned"

\* C10: every request of the retry loop is preceded by a build of a fresh
\* signed envelope (one build_x_payment_header call per request sent).
C10_EnvelopeBuiltPerAttempt ==
    rq.builds = rq.requests

\* the entries of the report that belong to account a
EntriesOf(a) == {k \in 1..Len(results) : results[k].private_key_suffix = a}

\* the units of account a that ended in Success (HTTP 200)
UnitsMinted(a) == Len(sess[a].results)

\* C4: at most max_workers sessions execute at the same time; an account whose
\* task has not been taken by a worker has sent nothing, and a session is
\* under way only in a task a worker has taken.
C4_AtMostWorkersExecuting ==
    /\ Cardinality(Running(task)) <= max_workers
    /\ \A a \in Accounts :
          /\ task[a] \in {"unsubmitted", "queued"} => sess[a] = NewSession
          /\ sess[a].pc = "unit" => task[a] = "running"

C4_Witness ==
    /\ Cardinality(Running(task)) = max_workers
    /\ \E a \in Accounts : task[a] = "queued"
    /\ \E a \in Accounts : task[a] = "running" /\ sess[a].call.requests >= 2

\* C5: when run_parallel_mints returns, every account's session has run to its
\* end and has one entry in the report, and the entry of a session that raised
\* is a failed result carrying the message and the kind of what it raised.
C5_FailureIsolated ==
    mainpc = "returned" =>
        \A a \in Accounts :
            /\ sess[a].pc \in {"returned", "raised"}
            /\ EntriesOf(a) # {}
            /\ sess[a].pc = "raised" =>
                  \A k \in EntriesOf(a) :
                      /\ results[k].ok = FALSE
                      /\ results[k].error = sess[a].err.msg
                      /\ results[k].error_type = sess[a].err.type
                      /\ results[k].error_type \in {"X402MintError", "ValueError", "Exception"}

C5_Witness ==
    /\ mainpc = "returned"
    /\ \E a, b \in Accounts :
          /\ sess[a].err = ExhaustedErr(DefaultMaxRetries)
          /\ sess[b].pc = "returned"
          /\ a < b
    /\ \E k \in 1..Len(results) : results[k].ok

\* C6: the report never holds two entries of one account, and when
\* run_parallel_mints returns it holds exactly one entry per account, so the
\* success count and the failure count add up to the number of accounts.
C6_OneResultPerAccount ==
    /\ \A a \in Accounts : Cardinality(EntriesOf(a)) <= 1
    /\ mainpc = "returned" =>
          /\ \A a \in Accounts : Cardinality(EntriesOf(a)) = 1
          /\ Cardinality({k \in 1..Len(results) : results[k].ok})
               + Cardinality({k \in 1..Len(results) : ~results[k].ok}) = NumAccounts

C6_Witness ==
    /\ mainpc = "returned"
    /\ Len(results) = NumAccounts
    /\ \E k \in 1..Len(results) : results[k].ok
    /\ \E k \in 1..Len(results) : ~results[k].ok

\* C7: an entry of the report is ok exactly when the session returned, and then
\* it carries amount unit results, one per unit that ended in Success; it is
\* not ok exactly when the session raised; and for amount >= 1 it is ok if and
\* only if all amount units ended in Success.
C7_OkIffAllUnitsMinted ==
    \A k \in 1..Len(results) :
        LET r == results[k]
            a == r.private_key_suffix
        IN  /\ r.ok => /\ Len(r.results) = amount
                       /\ r.results = sess[a].results
                       /\ amount >= 1
            /\ ~r.ok <=> sess[a].pc = "raised"
            /\ amount >= 1 => (r.ok <=> UnitsMinted(a) = amount)

C7_Witness ==
    /\ amount = 2
    /\ \E k, m \in 1..Len(results) :
          /\ results[k].ok
          /\ Len(results[k].results) = 2
          /\ ~results[m].ok
          /\ UnitsMinted(results[m].private_key_suffix) = 1

\* C8: once a session has raised it never changes again and its task stays
\* done (no request for the failed unit or a later one, no retry by mint or by
\* the pool); the step in which a unit fails leaves the session raised at that
\* unit, after at most DefaultMaxRetries requests for it.
C8_AbortOnFirstFailure ==
    [][\A a \in Accounts :
          /\ sess[a].err # NoErr =>
                /\ sess'[a] = sess[a]
                /\ task[a] = "done"
                /\ task'[a] = "done"
          /\ (sess[a].pc = "unit" /\ sess'[a].err # NoErr) =>
                /\ sess'[a].pc = "raised"
                /\ sess'[a].i = sess[a].i
                /\ sess[a].call.requests + 1 <= DefaultMaxRetries
                /\ sess'[a].err = ExhaustedErr(DefaultMaxRetries)
                      => sess[a].call.requests + 1 = DefaultMaxRetries]_vars

C8_Witness ==
    /\ amount = 2
    /\ \E a, b \in Accounts :
          /\ sess[a].err = ExhaustedErr(DefaultMaxRetries)
          /\ sess[a].i = 1
          /\ sess[b].err = PermanentErr(410)
          /\ sess[b].i = 2

\* C9: the result reported for a session that failed at unit k >= 2 carries
\* the k - 1 unit results of the units that had succeeded.
C9_PartialResultsReported ==
    \A a \in Accounts :
        (task[a] = "done" /\ sess[a].pc = "raised" /\ sess[a].i >= 2)
            => /\ "results" \in DOMAIN future[a]
               /\ future[a].results = sess[a].results

\* C11 as claimed: the delay of attempt n lies in
\* [0.6 * base * 2^(n-1), 1.4 * min(cap, base * 2^(n-1))].
C11_DelayAboveUncappedFloor ==
    bk.pc = "slept" =>
        /\ 6000 * (bk.base * 2 ^ (bk.attempt - 1)) <= bk.delay
        /\ bk.delay <= 14000 * Min(bk.cap, bk.base * 2 ^ (bk.attempt - 1))

\* C11 as amended: the delay of attempt n lies in
\* [0.6 * min(cap, base * 2^(n-1)), 1.4 * min(cap, base * 2^(n-1))], for every
\* base, cap and jitter draw.
C11_DelayWithinCappedBand ==
    bk.pc = "slept" =>
        /\ 6000 * Min(bk.cap, bk.base * 2 ^ (bk.attempt - 1)) <= bk.delay
        /\ bk.delay <= 14000 * Min(bk.cap, bk.base * 2 ^ (bk.attempt - 1))

C11_Witness ==
    /\ bk.pc = "slept"
    /\ bk.attempt >= 3
    /\ bk.cap < bk.base * 2 ^ (bk.attempt - 1)
    /\ bk.r = JitterSteps - 1
    /\ bk.delay = bk.cap * 13992

\* the outcomes the taxonomy classifies as Retry: 402, the transient codes,
\* every other code but 200, 404 and 410, and timeouts and connection errors
TaxonomyRetry(o) ==
    \/ o.kind = "http" /\ o.code = 402
    \/ o.kind = "http" /\ o.code \in {408, 425, 429, 500, 502, 503, 504}
    \/ o.kind = "http" /\ o.code \notin {200, 404, 410, 402, 408, 425, 429, 500, 502, 503, 504}
    \/ o.kind \in {"timeout", "request_error"}

\* C12: the outcome of the latest attempt is treated as the taxonomy says:
\* 200 returns that response, 404 and 410 raise the permanent failure, and every
\* other status code, a timeout and a connection error go round the loop again
\* while the budget lasts and raise the exhaustion error only when it is used
\* up.
C12_ClassificationMatchesTaxonomy ==
    LET n == Len(served)
    IN  n >= 1 =>
          LET o == served[n]
          IN  /\ (o.kind = "http" /\ o.code = 200) => (rq.pc = "returned" /\ rq.resp = o)
              /\ (o.kind = "http" /\ o.code \in {404, 410})
                    => (rq.pc = "raised" /\ rq.err = PermanentErr(o.code))
              /\ TaxonomyRetry(o) =>
                    IF n < rqMax
                    THEN rq.pc \in {"sleep", "get"} /\ rq.err = NoErr /\ rq.resp = NoResp
                    ELSE rq.pc = "raised" /\ rq.err = ExhaustedErr(rqMax)
              /\ o.kind = "http" => (o.code \in {200, 404, 410} \/ TaxonomyRetry(o))

C12_Witness ==
    /\ Len(served) = 2
    /\ served[1].kind = "http"
    /\ served[1].code = 418
    /\ served[2].kind = "http"
    /\ served[2].code = 301
    /\ rq.pc = "sleep"

\* C18: a sleep is taken only between two attempts: while the call waits to
\* send, it has slept once per request sent, the last sleep computed from the
\* attempt just made; once it has returned or raised, and while it is about to
\* sleep, it has slept once less than it has sent requests.
C18_SleepOnlyBetweenAttempts ==
    /\ rq.attempt = rq.requests
    /\ rq.pc = "get" => (rq.sleeps = rq.requests /\ rq.slept_for = rq.attempt)
    /\ rq.pc = "sleep" =>
          /\ rq.sleeps = rq.requests - 1
          /\ rq.attempt < rqMax
          /\ NonTerminal(served[Len(served)])
    /\ (rq.pc \in {"returned", "raised"} /\ rq.requests >= 1) => rq.sleeps = rq.requests - 1

C18_Witness ==
    /\ rq.err = ExhaustedErr(rqMax)
    /\ rq.requests = 3
    /\ rq.sleeps = 2
    /\ rq.slept_for = 2

Max(x, y) == IF x >= y THEN x ELSE y

\* C19: the budget is tested only after an attempt: a call that has ended has
\* sent at least one request, with max_retries <= 0 the first attempt is the
\* only one and a retryable outcome of it raises the exhaustion error, and a
\* call that raised the exhaustion error has sent max(1, max_retries) requests.
C19_AtLeastOneRequest ==
    /\ rq.pc \in {"returned", "raised"} => rq.requests >= 1
    /\ (rqMax <= 0 /\ Len(served) >= 1) =>
          /\ Len(served) = 1
          /\ rq.requests = 1
          /\ rq.pc \in {"returned", "raised"}
          /\ NonTerminal(served[1]) => rq.err = ExhaustedErr(rqMax)
    /\ rq.err = ExhaustedErr(rqMax) => rq.requests = Max(1, rqMax)

C19_Witness ==
    /\ rqMax < 0
    /\ rq.requests = 1
    /\ rq.sleeps = 0
    /\ rq.err = ExhaustedErr(rqMax)

ValidationErr == [type |-> "ValueError", msg |-> <<"amount must be > 0">>]

\* C13: with amount <= 0 no session reaches a unit or sends a request or
\* sleeps; a session whose constructor succeeded raises the validation error,
\* and its future and its entry in the report are the failed result of kind
\* ValueError.
C13_NonPositiveAmountRejected ==
    amount <= 0 =>
        \A a \in Accounts :
            /\ sess[a].pc \in {"init", "raised"}
            /\ sess[a].i = 0
            /\ sess[a].results = <<>>
            /\ sess[a].call = NewCall
            /\ sess[a].pc = "raised" =>
                  /\ sess[a].err.type \in {"ValueError", "Exception"}
                  /\ sess[a].err.msg # <<"bad private key">> =>
                        /\ sess[a].err = ValidationErr
                        /\ future[a] = [private_key_suffix |-> a, ok |-> FALSE,
                                        error |-> <<"amount must be > 0">>,
                                        error_type |-> "ValueError"]
                  /\ \A k \in EntriesOf(a) : results[k] = future[a]

C13_Witness ==
    /\ amount < 0
    /\ mainpc = "returned"
    /\ \E k \in 1..Len(results) :
          /\ results[k].error_type = "ValueError"
          /\ results[k].error = <<"amount must be > 0">>

\* C14: while a session works on unit i, exactly the i - 1 units before it have
\* resolved with Success; a session that returned resolved all amount units,
\* one that raised in unit i resolved i - 1; a unit's frame never holds more
\* sleeps than requests and is at rest between two steps.
C14_UnitsStrictlySequential ==
    \A a \in Accounts :
        /\ sess[a].pc = "unit" =>
              /\ 1 <= sess[a].i
              /\ sess[a].i <= amount
              /\ Len(sess[a].results) = sess[a].i - 1
              /\ sess[a].call.pc = "get"
              /\ sess[a].call.sleeps = sess[a].call.requests
        /\ sess[a].pc = "returned" =>
              /\ sess[a].i = amount
              /\ Len(sess[a].results) = amount
        /\ (sess[a].pc = "raised" /\ sess[a].i >= 1) => Len(sess[a].results) = sess[a].i - 1

C14_Witness ==
    \E a \in Accounts :
        /\ sess[a].pc = "unit"
        /\ sess[a].i = 2
        /\ Len(sess[a].results) = 1
        /\ sess[a].call.requests >= 2

\* C15: the report is in the order in which the collector saw the sessions
\* complete: a finished session can be collected at once, whatever sessions
\* submitted before it are still running, and when the entry of an account is
\* appended the accounts that are not complete have no entry yet.
C15_ReportInCompletionOrder ==
    /\ [](mainpc = "collect" =>
            \A a \in Accounts :
                (task[a] = "done" /\ a \notin yielded)
                    => ENABLED (Collect /\ yielded' = yielded \cup {a}))
    /\ [][\A a \in Accounts :
            (a \in yielded' /\ a \notin yielded) =>
                /\ task[a] = "done"
                /\ results' = Append(results, future[a])
                /\ \A b \in Accounts :
                      task[b] # "done" => (b \notin yielded' /\ EntriesOf(b) = {})]_vars

C15_Witness ==
    /\ Len(results) >= 1
    /\ results[1].private_key_suffix = 2
    /\ task[1] = "running"
    /\ sess[1].call.requests >= 1

\* C16: under fair scheduling run_parallel_mints eventually returns its
\* report, and no retry call ever goes beyond DefaultMaxRetries attempts.
C16_BatchEventuallyReturns ==
    /\ <>(mainpc = "returned")
    /\ [](\A a \in Accounts : sess[a].call.attempt <= DefaultMaxRetries)

C16_Witness ==
    /\ mainpc = "returned"
    /\ amount = MaxAmount
    /\ \E a \in Accounts : sess[a].err = ExhaustedErr(DefaultMaxRetries) /\ sess[a].i = MaxAmount
    /\ \E a \in Accounts : sess[a].pc = "returned"

\* a payment body that satisfies every validation rule
WellFormed(body) ==
    /\ body.kind = "dict"
    /\ body.accepts = "list"
    /\ body.items # <<>>
    /\ body.items[1].kind = "dict"
    /\ {"payTo", "maxAmountRequired"} \subseteq body.items[1].keys
    /\ body.items[1].payTo.isstr
    /\ body.items[1].payTo.prefix = "0x"
    /\ body.items[1].payTo.len \in {42, 66}
    /\ body.items[1].value = "str"

\* C17: a payment body that violates a validation rule makes build raise the
\* validation error (ValueError), with no nonce drawn and nothing signed.
C17_MalformedBodyRejected ==
    (hb.pc # "args" /\ ~WellFormed(hb.body)) =>
        /\ hb.pc = "raised"
        /\ hb.result = "ValueError"
        /\ hb.nonces = 0
        /\ hb.signs = 0

\* C20: the retry budget is per unit.  While a unit runs, the attempt counter
\* of its call equals the requests sent for that unit alone (so it is zero
\* when the unit starts, whatever the units before it used), the backoff
\* exponent is that same count, no unit sends more than max_retries requests
\* and the session sends at most amount * max_retries requests.
C20_RetryBudgetPerUnit ==
    /\ ms.s.pc = "unit" =>
          /\ ms.s.call.attempt = ms.unit_sent
          /\ ms.unit_sent < DefaultMaxRetries
          /\ ms.unit_sent >= 1 => ms.s.call.slept_for = ms.unit_sent
    /\ ms.unit_sent <= DefaultMaxRetries
    /\ ms.sent <= ms.amount * DefaultMaxRetries

\* the last unit runs out of attempts after every unit before it used all of
\* its own: amount * max_retries requests were sent
C20_Witness ==
    /\ ms.amount = MaxAmount
    /\ ms.amount >= 2
    /\ ms.s.pc = "raised"
    /\ ms.s.i = ms.amount
    /\ ms.s.err = ExhaustedErr(DefaultMaxRetries)
    /\ ms.sent = ms.amount * DefaultMaxRetries

====
